---- MODULE Spec2Model ----
(***************************************************************************)
(* A model of gpii.windowsMetrics (src/files/windowsMetrics.js): the       *)
(* window/application tracker, the typing-session and key-time recorder,   *)
(* the pointer-distance accumulator, the inactivity monitor and the path   *)
(* genericiser.  Every handler is one atomic action: node's event loop     *)
(* runs one callback at a time, and fluid promises that are already        *)
(* settled call their handlers synchronously.                              *)
(***************************************************************************)
EXTENDS Integers, Sequences, FiniteSets, TLC

VARIABLES
    knownWindows,         \* state.application.knownWindows: hwnd -> WindowInfo
    runningApplications,  \* state.application.runningApplications: pid -> entry
    activeWindow,         \* state.application.activeWindow
    currentProcess,       \* state.application.currentProcess (<<>> = undefined)
    appState,             \* eventLog state "app"
    polls,                \* pending waitForProcessTermination promises
    lastKeyTime,          \* state.input.lastKeyTime
    sessionStart,         \* state.input.sessionStart (null is held as 0)
    keyCount,             \* state.input.keyCount
    specialCount,         \* state.input.specialCount
    lastPos,              \* state.input.lastPos (<<>> = null)
    distance,             \* state.input.distance, in half pixels
    inactive,             \* state.input.inactive
    inactivityTimer,      \* state.input.inactivityTimer (0 = null), a timer handle
    timers,               \* the handles of the timers that setTimeout has pending
    rawInputDevices,      \* what RegisterRawInputDevices has registered
    messages,             \* whether the message window has been started
    now,                  \* the time, in steps of 10000 ms
    ended,                \* pid -> the time at which the process ended
    destroyedAt,          \* pid -> the time at which a known window of its
                          \* running application was last destroyed
    emitted,              \* what the last handler logged and fired, in order
    op                    \* the last handler that ran, with its input

appVars == <<knownWindows, runningApplications, activeWindow, currentProcess,
             appState, polls>>
keyVars == <<lastKeyTime, sessionStart, keyCount, specialCount>>
mouseVars == <<lastPos, distance>>
idleVars == <<inactive, inactivityTimer>>
systemVars == <<timers, rawInputDevices, messages>>
clockVars == <<now, ended, destroyedAt>>
vars == <<appVars, keyVars, mouseVars, idleVars, systemVars, clockVars, emitted, op>>

(***************************************************************************)
(* Small helpers.                                                          *)
(***************************************************************************)
Range(s) == {s[i] : i \in DOMAIN s}

\* One logged metric (that.logMetric) or one fired event.
Metric(name, data) == [name |-> name, data |-> data]

NamedIn(log, name) == SelectSeq(log, LAMBDA r : r.name = name)

Named(name) == NamedIn(emitted, name)

(***************************************************************************)
(* config.input                                                            *)
(***************************************************************************)
MinSession == 30000
SessionTimeout == 60000
MinSessionKeys == 10
InactiveTime == 300000

(***************************************************************************)
(* Strings: characters, case folding, prefixes.                            *)
(***************************************************************************)
UpperCase == "ABCDEFGHIJKLMNOPQRSTUVWXYZ"
LowerCase == "abcdefghijklmnopqrstuvwxyz"

CharAt(s, i) == SubSeq(s, i, i)

\* The lower-case letter of each upper-case letter.
LowerOf ==
    [c \in {CharAt(UpperCase, i) : i \in 1..Len(UpperCase)} |->
        CharAt(LowerCase, CHOOSE i \in 1..Len(UpperCase) : CharAt(UpperCase, i) = c)]

ToLowerChar(c) == IF c \in DOMAIN LowerOf THEN LowerOf[c] ELSE c

RECURSIVE ToLowerCase(_)
ToLowerCase(s) ==
    IF Len(s) = 0 THEN "" ELSE ToLowerChar(CharAt(s, 1)) \o ToLowerCase(Tail(s))

StartsWith(s, prefix) ==
    Len(prefix) <= Len(s) /\ SubSeq(s, 1, Len(prefix)) = prefix

EndsWith(s, suffix) ==
    Len(suffix) <= Len(s) /\ SubSeq(s, Len(s) - Len(suffix) + 1, Len(s)) = suffix

\* String.prototype.substr(start) with a zero-based start.
SubstrFrom(s, start) == SubSeq(s, start + 1, Len(s))

\* Number.prototype.toString(radix) for a non-negative integer.
Digits == "0123456789abcdefghijklmnopqrstuvwxyz"

RECURSIVE NumToString(_, _)
NumToString(n, radix) ==
    IF n < radix
    THEN CharAt(Digits, n + 1)
    ELSE NumToString(n \div radix, radix) \o CharAt(Digits, (n % radix) + 1)

(***************************************************************************)
(* path.normalize and path.join of node's win32 path module, for absolute  *)
(* paths without "." and ".." segments: "/" becomes "\", runs of           *)
(* separators collapse to one.                                             *)
(***************************************************************************)
BackSlash == "\\"

IsSep(c) == c = BackSlash \/ c = "/"

RECURSIVE Normalize(_)
Normalize(p) ==
    IF Len(p) = 0 THEN ""
    ELSE IF IsSep(CharAt(p, 1))
         THEN IF Len(p) > 1 /\ IsSep(CharAt(p, 2))
              THEN Normalize(Tail(p))
              ELSE BackSlash \o Normalize(Tail(p))
         ELSE CharAt(p, 1) \o Normalize(Tail(p))

\* path.join(a, b): empty segments are skipped, the rest joined with "\" and
\* normalized.
PathJoin(a, b) == IF Len(b) = 0 THEN Normalize(a) ELSE Normalize(a \o BackSlash \o b)

\* String.prototype.replace(/\\+$/, ""): drop trailing backslashes.
RECURSIVE StripTrailingSeps(_)
StripTrailingSeps(p) ==
    IF Len(p) > 0 /\ CharAt(p, Len(p)) = BackSlash
    THEN StripTrailingSeps(SubSeq(p, 1, Len(p) - 1))
    ELSE p

(***************************************************************************)
(* genericisePath                                                          *)
(***************************************************************************)
pathEnvironmentNames ==
    << "SystemRoot", "CommonProgramFiles", "CommonProgramFiles(x86)",
       "ProgramFiles(x86)", "ProgramFiles", "APPDATA", "TEMP", "LOCALAPPDATA",
       "HOME", "USERPROFILE", "PUBLIC", "ProgramData", "ALLUSERSPROFILE" >>

\* process.env of the modelled machine.  HOME and TEMP are not set.
ProcessEnv ==
    [ SystemRoot |-> "C:\\Windows",
      ProgramFiles |-> "C:\\Program Files",
      APPDATA |-> "C:\\Users\\alice\\AppData\\Roaming",
      LOCALAPPDATA |-> "C:\\Users\\alice\\AppData\\Local\\",
      USERPROFILE |-> "C:\\Users\\alice",
      ProgramData |-> "C:\\ProgramData" ]
    @@ ("ProgramFiles(x86)" :> "C:\\Program Files (x86)")

EnvValue(env, envName) == IF envName \in DOMAIN env THEN env[envName] ELSE ""

\* The test of one variable inside the fluid.find callback.
EnvMatches(env, envName, pathMatch) ==
    /\ EnvValue(env, envName) # ""
    /\ StartsWith(pathMatch,
                  ToLowerCase(StripTrailingSeps(Normalize(EnvValue(env, envName)))))

\* Variant: the last name that matches, not the first
EnvFoundLast(env, pathMatch) ==
    LET hits == {i \in DOMAIN pathEnvironmentNames :
                    EnvMatches(env, pathEnvironmentNames[i], pathMatch)}
    IN IF hits = {} THEN 0 ELSE CHOOSE i \in hits : \A j \in hits : i >= j

\* fluid.find: the index of the first name that matches, 0 if none does.
EnvFound(env, pathMatch) ==
    LET hits == {i \in DOMAIN pathEnvironmentNames :
                    EnvMatches(env, pathEnvironmentNames[i], pathMatch)}
    IN IF hits = {} THEN 0 ELSE CHOOSE i \in hits : \A j \in hits : i <= j

genericisePathEnv(rawPath, env) ==
    IF rawPath = "" THEN ""
    ELSE LET pathMatch == ToLowerCase(Normalize(rawPath))
             found == EnvFound(env, pathMatch)
         IN IF found = 0 THEN rawPath
            ELSE LET name == pathEnvironmentNames[found]
                     value == StripTrailingSeps(Normalize(env[name]))
                     ending == SubstrFrom(Normalize(rawPath), Len(value))
                 IN PathJoin("%" \o name \o "%", ending)

\* The executable paths the modelled system has, and the name made up for a
\* window without a process.
ExePaths ==
    { "C:\\Windows\\notepad.exe",
      "C:/Users/Alice/AppData/Roaming/x.exe",
      "C:\\Program Files (x86)\\GPII\\gpii.exe",
      "c:\\windows\\ApplicationFrameHost.exe",
      "D:\\calc.exe",
      "unknown-0" }

\* genericisePath with the default environment, worked out once for the
\* paths of the modelled system.
GenericPaths == [p \in ExePaths |-> genericisePathEnv(p, ProcessEnv)]

genericisePath(rawPath) ==
    IF rawPath \in DOMAIN GenericPaths
    THEN GenericPaths[rawPath]
    ELSE genericisePathEnv(rawPath, ProcessEnv)

(***************************************************************************)
(* Windows constants used by the input handlers                            *)
(* (windows.API_constants, from WindowsUtilities.js).                      *)
(***************************************************************************)
RIM_TYPEMOUSE == 0
RIM_TYPEKEYBOARD == 1
WM_KEYDOWN == 256
WM_KEYUP == 257

\* usButtonFlags is a bit set; it is held as the set of the flags that are on.
RI_MOUSE_LEFT_BUTTON_DOWN == "RI_MOUSE_LEFT_BUTTON_DOWN"
RI_MOUSE_LEFT_BUTTON_UP == "RI_MOUSE_LEFT_BUTTON_UP"
RI_MOUSE_RIGHT_BUTTON_UP == "RI_MOUSE_RIGHT_BUTTON_UP"
RI_MOUSE_WHEEL == "RI_MOUSE_WHEEL"

\* windows.API_constants.virtualKeyCodes, restricted to the names the
\* special-key list asks for.
VirtualKeyCodes ==
    [ BACK |-> 8, TAB |-> 9, RETURN |-> 13, SHIFT |-> 16, CONTROL |-> 17,
      MENU |-> 18, ESCAPE |-> 27, SPACE |-> 32, PAGEUP |-> 33, PAGEDOWN |-> 34,
      END |-> 35, HOME |-> 36, LEFT |-> 37, UP |-> 38, RIGHT |-> 39, DOWN |-> 40,
      SELECT |-> 41, PRINT |-> 42, EXECUTE |-> 43, SNAPSHOT |-> 44,
      INSERT |-> 45, DELETE |-> 46, HELP |-> 47, LWIN |-> 91, RWIN |-> 92,
      NUMLOCK |-> 144, SCROLL |-> 145,
      F1 |-> 112, F2 |-> 113, F3 |-> 114, F4 |-> 115, F5 |-> 116, F6 |-> 117,
      F7 |-> 118, F8 |-> 119, F9 |-> 120, F10 |-> 121, F11 |-> 122, F12 |-> 123,
      F13 |-> 124, F14 |-> 125, F15 |-> 126, F16 |-> 127, F17 |-> 128,
      F18 |-> 129, F19 |-> 130, F20 |-> 131, F21 |-> 132, F22 |-> 133,
      F23 |-> 134, F24 |-> 135 ]

\* user32.MapVirtualKeyW(vkey, MAPVK_VK_TO_CHAR): the unshifted character of
\* the key (letters in upper case), 0 for a key without one.
MapVirtualKeyW(vkey) ==
    IF vkey \in (48..57) \cup (65..90) \cup {8, 9, 13, 27, 32} THEN vkey
    ELSE IF vkey = 190 THEN 46
    ELSE 0

\* A character value that shows on the screen: space, letters, digits,
\* punctuation.
IsPrintable(charCode) == charCode \in 32..126

\* String.fromCharCode, for the character values MapVirtualKeyW gives.  A
\* TLA+ string cannot hold a control character, so those are written as "^"
\* and the decimal code.
FromCharCode(charCode) ==
    IF charCode \in 48..57 THEN CharAt("0123456789", charCode - 47)
    ELSE IF charCode \in 65..90 THEN CharAt(UpperCase, charCode - 64)
    ELSE IF charCode = 32 THEN " "
    ELSE IF charCode = 46 THEN "."
    ELSE "^" \o NumToString(charCode, 10)

(***************************************************************************)
(* specialKeys                                                             *)
(***************************************************************************)
specialKeyNames ==
    << "BACK", "TAB", "RETURN", "ESCAPE", "PAGEUP", "PAGEDOWN", "END", "HOME",
       "LEFT", "UP", "RIGHT", "DOWN", "SELECT", "PRINT", "EXECUTE", "SNAPSHOT",
       "INSERT", "DELETE", "HELP", "LWIN", "RWIN", "SCROLL", "NUMLOCK",
       "F1", "F2", "F3", "F4", "F5", "F6", "F7", "F8", "F9", "F10", "F11",
       "F12", "F13", "F14", "F15", "F16", "F17", "F18", "F19", "F20", "F21",
       "F22", "F23", "F24", "CONTROL", "MENU", "SHIFT", "SPACE" >>

\* The keys of the list that have a (non-zero) value in virtualKeyCodes.
specialKeyNamesWithValue ==
    {n \in Range(specialKeyNames) :
        n \in DOMAIN VirtualKeyCodes /\ VirtualKeyCodes[n] # 0}

\* The value => name map.
specialKeys ==
    [v \in {VirtualKeyCodes[n] : n \in specialKeyNamesWithValue} |->
        CHOOSE n \in specialKeyNamesWithValue : VirtualKeyCodes[n] = v]

\* specialKeys[vkey], "" standing for undefined.
SpecialKeyOf(vkey) == IF vkey \in DOMAIN specialKeys THEN specialKeys[vkey] ELSE ""

\* fluid.keyForValue(specialKeys, name) through parseInt; 0 stands for NaN.
KeyForValue(name) ==
    IF \E v \in DOMAIN specialKeys : specialKeys[v] = name
    THEN CHOOSE v \in DOMAIN specialKeys : specialKeys[v] = name
    ELSE 0

(***************************************************************************)
(* getModifierKeys: `down` is the set of modifier keys for which           *)
(* GetKeyState reports the high bit.                                       *)
(***************************************************************************)
getModifierKeys(down) ==
    SelectSeq(<<"SHIFT", "CTRL", "ALT">>, LAMBDA name : name \in down)

(***************************************************************************)
(* recordKeyTiming                                                         *)
(***************************************************************************)
(***************************************************************************)
(* IEEE 754 double arithmetic, for 60000 / duration * count.  A positive   *)
(* double is [bits, exp]: its 53 significant bits, the first of them 1,    *)
(* and the power of two of the last of them.                               *)
(***************************************************************************)
MantissaBits == 53

\* Long division: `count` more bits of the quotient after those of `bits`,
\* r < d being the remainder so far; with the remainder that is left.
RECURSIVE QuotientBits(_, _, _, _)
QuotientBits(r, d, count, bits) ==
    IF count = 0 THEN [bits |-> bits, rest |-> r]
    ELSE IF 2 * r >= d
    THEN QuotientBits(2 * r - d, d, count - 1, Append(bits, 1))
    ELSE QuotientBits(2 * r, d, count - 1, Append(bits, 0))

\* bits + 1; one bit longer if every bit was 1.
RECURSIVE Increment(_)
Increment(bits) ==
    IF Len(bits) = 0 THEN <<1>>
    ELSE IF bits[Len(bits)] = 0
    THEN Append(SubSeq(bits, 1, Len(bits) - 1), 1)
    ELSE Append(Increment(SubSeq(bits, 1, Len(bits) - 1)), 0)

\* Round to nearest, ties to even: `bits` (the first of them 1) are
\* MantissaBits long or longer; sticky says that something non-zero follows
\* them.  exp is the power of two of the last of `bits`.
RoundToDouble(bits, exp, sticky) ==
    LET extra == Len(bits) - MantissaBits
        kept == SubSeq(bits, 1, MantissaBits)
        dropped == SubSeq(bits, MantissaBits + 1, Len(bits))
        half == extra > 0 /\ dropped[1] = 1
        more == sticky \/ \E i \in 2..extra : dropped[i] = 1
        up == half /\ (more \/ kept[MantissaBits] = 1)
        inc == Increment(kept)
    IN IF ~up THEN [bits |-> kept, exp |-> exp + extra]
       ELSE IF Len(inc) > MantissaBits
       THEN [bits |-> SubSeq(inc, 1, MantissaBits), exp |-> exp + extra + 1]
       ELSE [bits |-> inc, exp |-> exp + extra]

\* The number of times n doubles before it reaches d.
RECURSIVE LeadingZeros(_, _)
LeadingZeros(n, d) == IF n >= d THEN 0 ELSE 1 + LeadingZeros(2 * n, d)

RECURSIVE Pow2(_)
Pow2(k) == IF k = 0 THEN 1 ELSE 2 * Pow2(k - 1)

\* The double nearest to n / d, for 0 < n < 2 * d.
DoubleDivide(n, d) ==
    LET zeros == LeadingZeros(n, d)
        scaled == n * Pow2(zeros)
        q == QuotientBits(scaled - d, d, MantissaBits, <<1>>)
    IN RoundToDouble(q.bits, -(zeros + MantissaBits), q.rest # 0)

\* The bits of a natural number, none for 0.
RECURSIVE BitsOf(_)
BitsOf(n) == IF n = 0 THEN <<>> ELSE Append(BitsOf(n \div 2), n % 2)

\* bits * c, worked out from the last bit to the first: `done` are the bits
\* of the product so far and carry is what goes on to the next bit.
RECURSIVE TimesBits(_, _, _, _)
TimesBits(bits, c, carry, done) ==
    IF Len(bits) = 0 THEN BitsOf(carry) \o done
    ELSE IF (bits[Len(bits)] * c + carry) % 2 = 1
    THEN TimesBits(SubSeq(bits, 1, Len(bits) - 1), c,
                   (bits[Len(bits)] * c + carry) \div 2, <<1>> \o done)
    ELSE TimesBits(SubSeq(bits, 1, Len(bits) - 1), c,
                   (bits[Len(bits)] * c + carry) \div 2, <<0>> \o done)

\* The double nearest to x * c, for a natural number c > 0.
DoubleTimes(x, c) == RoundToDouble(TimesBits(x.bits, c, 0, <<>>), x.exp, FALSE)

\* The value of the bits as a natural number.
RECURSIVE ValueOf(_)
ValueOf(bits) ==
    IF Len(bits) = 0 THEN 0
    ELSE 2 * ValueOf(SubSeq(bits, 1, Len(bits) - 1)) + bits[Len(bits)]

\* Math.round of a positive double under 2^30: the integer below it, and one
\* more if the fraction is a half or over.
MathRound(x) ==
    LET whole == MantissaBits + x.exp
    IN IF whole < 0 THEN 0
       ELSE IF whole >= MantissaBits THEN ValueOf(x.bits) * Pow2(x.exp)
       ELSE ValueOf(SubSeq(x.bits, 1, whole)) + x.bits[whole + 1]

\* Math.round(60000 / data.duration * data.count)
KeysPerMinute(count, duration) ==
    MathRound(DoubleTimes(DoubleDivide(60000, duration), count))

\* Variant: a negative time is kept
KeyTimeNegativeKept(timestamp) ==
    LET keyTime == IF lastKeyTime # 0 THEN timestamp - lastKeyTime ELSE 0
    IN IF keyTime > SessionTimeout THEN 0 ELSE keyTime

\* The time since the last key press, after the two clamps.
KeyTime(timestamp) ==
    LET keyTime == IF lastKeyTime # 0 THEN timestamp - lastKeyTime ELSE 0
    IN IF keyTime > SessionTimeout THEN 0
       ELSE IF keyTime < 0 THEN 0
       ELSE keyTime

\* The guard of the block that ends the typing session.
SessionEnds(keyTime) == keyCount > 1 /\ keyTime = 0

\* Variant: the number of keys is not looked at
SessionRecordedAnyCount(duration) == duration > MinSession

\* The guard of the typing-session record.
SessionRecorded(duration) == duration > MinSession /\ keyCount >= MinSessionKeys

TypingSessionData(duration) ==
    [ duration |-> duration,
      count |-> keyCount,
      corrections |-> specialCount,
      rate |-> KeysPerMinute(keyCount, duration) ]

\* Whether the key-time record gets the name of the special key.
LogsSpecialKey(specialKey) ==
    /\ specialKey # ""
    /\ KeyForValue(specialKey) # 0
    /\ Len(specialKey) > 1

\* Variant: the character value is logged whatever is held
LogsKeyValueAlways(modifiers) == TRUE

\* Whether the key-time record gets the character value.
LogsKeyValue(modifiers) == "CTRL" \in Range(modifiers)

KeyTimeData(keyTime, specialKey, keyValue, modifiers) ==
    LET record == [keyTime |-> keyTime]
        withMods == IF Len(modifiers) > 0
                    THEN record @@ [modifierKeys |-> modifiers]
                    ELSE record
        withSpecial == IF LogsSpecialKey(specialKey)
                       THEN withMods @@ [key |-> specialKeys[KeyForValue(specialKey)]]
                       ELSE withMods
    IN IF LogsKeyValue(modifiers)
       THEN [key |-> keyValue] @@ withSpecial
       ELSE withSpecial

\* The new input state and the records of one call.
recordKeyTiming(timestamp, specialKey, keyValue, down) ==
    LET keyTime == KeyTime(timestamp)
        ends == SessionEnds(keyTime)
        duration == lastKeyTime - sessionStart
        session == IF ends /\ SessionRecorded(duration)
                   THEN <<Metric("typing-session", TypingSessionData(duration))>>
                   ELSE <<>>
        count1 == IF ends THEN 0 ELSE keyCount
        starts == count1 = 0 /\ specialKey = ""
    IN [ keyCount |-> IF count1 = 0
                      THEN (IF specialKey = "" THEN 1 ELSE count1)
                      ELSE IF specialKey # "" THEN count1 ELSE count1 + 1,
         specialCount |-> IF count1 = 0
                          THEN (IF specialKey = "" THEN 0 ELSE specialCount)
                          ELSE IF specialKey # "" THEN specialCount + 1
                          ELSE specialCount,
         sessionStart |-> IF starts THEN timestamp ELSE sessionStart,
         lastKeyTime |-> timestamp,
         out |-> session \o
                 <<Metric("key-time",
                          KeyTimeData(keyTime, specialKey, keyValue,
                                      getModifierKeys(down)))>> ]

(***************************************************************************)
(* recordMouseEvent.  state.distance is a double; the model keeps it in    *)
(* half pixels, rounded down.                                              *)
(***************************************************************************)
Abs(n) == IF n < 0 THEN -n ELSE n

\* n * n <= x * x + y * y, for 0 <= y <= x, without leaving 32 bits.
SquareAtMost(n, x, y) == (n - x) * (n + x) <= y * y

RECURSIVE SqrtSearch(_, _, _, _)
SqrtSearch(lo, hi, x, y) ==
    IF lo >= hi THEN lo
    ELSE LET mid == (lo + hi + 1) \div 2
         IN IF SquareAtMost(mid, x, y)
            THEN SqrtSearch(mid, hi, x, y)
            ELSE SqrtSearch(lo, mid - 1, x, y)

\* floor(2 * Math.sqrt(Math.pow(px, 2) + Math.pow(py, 2)))
NormHalves(px, py) ==
    LET x == IF Abs(px) >= Abs(py) THEN Abs(px) ELSE Abs(py)
        y == IF Abs(px) >= Abs(py) THEN Abs(py) ELSE Abs(px)
        r == SqrtSearch(x, x + (y \div 2) + 1, x, y)
        rest == (y * y) - ((r - x) * (r + x))
    IN (2 * r) + (IF rest > r THEN 1 ELSE 0)

\* 0xffff, in pixels.
DistanceCeiling == 65535

\* Variant: no ceiling
AccumulateNoCeiling(pos) ==
    IF lastPos # <<>> THEN distance + NormHalves(pos.x, pos.y) ELSE distance

\* The accumulator after the sample has been added and the ceiling applied.
Accumulate(pos) ==
    IF lastPos # <<>>
    THEN LET sum == distance + NormHalves(pos.x, pos.y)
         IN IF sum > 2 * DistanceCeiling THEN 0 ELSE sum
    ELSE distance

\* Variant: the fraction is cut off
RoundDistanceDown(halves) == halves \div 2

\* Math.round(state.distance)
RoundDistance(halves) == (halves + 1) \div 2

MouseData(data, down) ==
    LET modifiers == getModifierKeys(down)
    IN IF Len(modifiers) > 0 THEN data @@ [modifierKeys |-> modifiers] ELSE data

\* Variant: a wheel record empties the accumulator as a button record does
recordMouseEventWheelResets(button, pos, down) ==
    IF pos.wheel # 0
    THEN [ distance |-> 0, lastPos |-> <<pos>>,
           out |-> <<Metric("mouse", MouseData([wheel |-> pos.wheel], down))>> ]
    ELSE IF button # 0
    THEN [ distance |-> 0, lastPos |-> <<pos>>,
           out |-> <<Metric("mouse",
                            MouseData([button |-> button,
                                       distance |-> RoundDistance(Accumulate(pos))],
                                      down))>> ]
    ELSE [ distance |-> Accumulate(pos), lastPos |-> <<pos>>, out |-> <<>> ]

\* The new pointer state and the records of one call.
recordMouseEvent(button, pos, down) ==
    LET acc == Accumulate(pos)
    IN IF pos.wheel # 0
       THEN [ distance |-> acc, lastPos |-> <<pos>>,
              out |-> <<Metric("mouse", MouseData([wheel |-> pos.wheel], down))>> ]
       ELSE IF button # 0
       THEN [ distance |-> 0, lastPos |-> <<pos>>,
              out |-> <<Metric("mouse",
                               MouseData([button |-> button,
                                          distance |-> RoundDistance(acc)], down))>> ]
       ELSE [ distance |-> acc, lastPos |-> <<pos>>, out |-> <<>> ]

(***************************************************************************)
(* Raw input.  A RAWINPUT buffer is held as one record with the fields of  *)
(* the header, of RAWINPUTKEYBOARD and of RAWINPUTMOUSE that the handler   *)
(* reads.                                                                  *)
(***************************************************************************)
KeyPacket(hDevice, message, vkey) ==
    [ dwType |-> RIM_TYPEKEYBOARD, hDevice |-> hDevice, Message |-> message,
      VKey |-> vkey, usButtonFlags |-> {}, usButtonData |-> 0,
      lLastX |-> 0, lLastY |-> 0 ]

MousePacket(hDevice, flags, data, x, y) ==
    [ dwType |-> RIM_TYPEMOUSE, hDevice |-> hDevice, Message |-> 0, VKey |-> 0,
      usButtonFlags |-> flags, usButtonData |-> data, lLastX |-> x, lLastY |-> y ]

\* Buffer.alloc gives a zero-filled buffer.
ZeroedBuffer == MousePacket(0, {}, 0, 0, 0)

\* getRawInputData.  sizeQuery and fillQuery are the results of the two
\* GetRawInputData calls; the second result is not looked at, and a query that
\* failed leaves the buffer as it was allocated.
getRawInputData(sizeQuery, fillQuery, packet) ==
    IF sizeQuery = 0
    THEN [ resolved |-> TRUE,
           rawInput |-> IF fillQuery >= 0 THEN packet ELSE ZeroedBuffer ]
    ELSE [ resolved |-> FALSE, rawInput |-> ZeroedBuffer,
           error |-> [ isError |-> TRUE, returnCode |-> -1,
                       errorCode |-> "GetLastError()" ] ]

\* Variant: injected input is not told apart
FromAnyDevice(rawInput) == TRUE

\* The test for injected input: the device handle of a real device is not 0.
FromDevice(rawInput) == rawInput.hDevice # 0

\* Variant: the key-up of every key is recorded
KeyboardInputAnyKey(rawInput, time, down, keep) ==
    IF FromDevice(rawInput) /\ rawInput.Message = WM_KEYUP
    THEN recordKeyTiming(time, SpecialKeyOf(rawInput.VKey),
                         FromCharCode(MapVirtualKeyW(rawInput.VKey)), down)
         @@ keep
    ELSE keep

\* The keyboard branch of handleWMINPUT: the new state and records.
KeyboardInput(rawInput, time, down, keep) ==
    IF FromDevice(rawInput) /\ rawInput.Message = WM_KEYUP
    THEN LET keyValue == MapVirtualKeyW(rawInput.VKey)
             specialKey == SpecialKeyOf(rawInput.VKey)
         IN IF specialKey # "" \/ keyValue # 0
            THEN recordKeyTiming(time, specialKey, FromCharCode(keyValue), down)
                 @@ keep
            ELSE keep
    ELSE keep

RelevantMouseEvent(rawInput) ==
    \/ rawInput.usButtonFlags \cap
          {RI_MOUSE_WHEEL, RI_MOUSE_LEFT_BUTTON_UP, RI_MOUSE_RIGHT_BUTTON_UP} # {}
    \/ rawInput.usButtonFlags = {}

\* Unsigned 16 bit to signed.
WheelDistance(usButtonData) ==
    IF usButtonData >= 32768 THEN usButtonData - 65536 ELSE usButtonData

\* The mouse branch of handleWMINPUT: the new state and records.
MouseInput(rawInput, down, keep) ==
    IF RelevantMouseEvent(rawInput) /\ FromDevice(rawInput)
    THEN LET isWheel == RI_MOUSE_WHEEL \in rawInput.usButtonFlags
             wheelDirection ==
                 IF isWheel
                 THEN (IF WheelDistance(rawInput.usButtonData) >= 0 THEN 1 ELSE -1)
                 ELSE 0
             button ==
                 IF isWheel THEN "W"
                 ELSE IF RI_MOUSE_LEFT_BUTTON_UP \in rawInput.usButtonFlags THEN 1
                 ELSE IF RI_MOUSE_RIGHT_BUTTON_UP \in rawInput.usButtonFlags THEN 2
                 ELSE 0
         IN recordMouseEvent(button,
                             [ x |-> rawInput.lLastX, y |-> rawInput.lLastY,
                               wheel |-> wheelDirection ],
                             down) @@ keep
    ELSE keep

(***************************************************************************)
(* userInput and userInactive                                              *)
(***************************************************************************)
\* Variant: the timer that was set before is left to run
ClearTimeoutLeft(pending, timer) == pending

\* clearTimeout(timer): the timer, if it is pending, is pending no more.
ClearTimeout(pending, timer) == pending \ {timer}

\* The handle setTimeout returns: one that no pending timer has.
SetTimeout(pending) ==
    CHOOSE timer \in 1..(Cardinality(pending) + 1) :
        /\ timer \notin pending
        /\ \A other \in 1..(timer - 1) : other \in pending

\* The timers that are pending when userInput has cleared the one it holds.
userInputClears ==
    IF inactivityTimer # 0 THEN ClearTimeout(timers, inactivityTimer) ELSE timers

\* Variant: the event is not fired
userInputFiresNever == <<>>

\* Variant: the event is fired for every input
userInputFiresAlways == <<Metric("onActive", <<>>)>>

\* The events userInput fires.
userInputFires == IF inactive THEN <<Metric("onActive", <<>>)>> ELSE <<>>

\* handleWMINPUT, for one WM_INPUT message.  time is GetMessageTime(), down
\* the modifier keys GetKeyState reports as held.
handleWMINPUT(sizeQuery, fillQuery, packet, time, down) ==
    LET pRawInput == getRawInputData(sizeQuery, fillQuery, packet)
        rawInput == pRawInput.rawInput
        keep == [ lastKeyTime |-> lastKeyTime, sessionStart |-> sessionStart,
                  keyCount |-> keyCount, specialCount |-> specialCount,
                  lastPos |-> lastPos, distance |-> distance, out |-> <<>> ]
        new == IF ~pRawInput.resolved
               THEN [keep EXCEPT !.out = <<Metric("fluid.log", pRawInput.error)>>]
               ELSE IF rawInput.dwType = RIM_TYPEKEYBOARD
               THEN KeyboardInput(rawInput, time, down, keep)
               ELSE IF rawInput.dwType = RIM_TYPEMOUSE
               THEN MouseInput(rawInput, down, keep)
               ELSE keep
    IN /\ inactive' = FALSE
       /\ inactivityTimer' = SetTimeout(userInputClears)
       /\ timers' = userInputClears \cup {SetTimeout(userInputClears)}
       /\ lastKeyTime' = new.lastKeyTime
       /\ sessionStart' = new.sessionStart
       /\ keyCount' = new.keyCount
       /\ specialCount' = new.specialCount
       /\ lastPos' = new.lastPos
       /\ distance' = new.distance
       /\ emitted' = userInputFires \o new.out
       /\ op' = [ name |-> "handleWMINPUT", resolved |-> pRawInput.resolved,
                  rawInput |-> rawInput, down |-> down,
                  queries |-> <<sizeQuery, fillQuery>> ]
       /\ UNCHANGED <<appVars, clockVars, rawInputDevices, messages>>

\* A pending timer runs out: userInactive(that, that.events.onInactive), and
\* the onInactive listener, which calls userInactive(that).  The handle stays
\* in state.inactivityTimer.
InactivityTimeout(timer) ==
    /\ timer \in timers
    /\ timers' = timers \ {timer}
    /\ inactive' = TRUE
    /\ emitted' = <<Metric("onInactive", <<>>)>>
    /\ op' = [name |-> "userInactive", timer |-> timer]
    /\ UNCHANGED <<appVars, clockVars, keyVars, mouseVars, inactivityTimer, rawInputDevices,
                   messages>>

(***************************************************************************)
(* startInputMetrics and stopInputMetrics                                  *)
(***************************************************************************)
\* Variant: the timer is left to run
stopInputMetricsLeaves == timers

\* The timers that are pending when stopInputMetrics has cleared the one the
\* state holds.
stopInputMetricsClears ==
    IF inactivityTimer # 0 THEN ClearTimeout(timers, inactivityTimer) ELSE timers

\* stopInputMetrics
StopInputMetrics ==
    /\ timers' = stopInputMetricsClears
    /\ inactivityTimer' = 0
    /\ rawInputDevices' = {}
    /\ emitted' = <<>>
    /\ op' = [name |-> "stopInputMetrics"]
    /\ UNCHANGED <<appVars, clockVars, keyVars, mouseVars, inactive, messages>>

\* The reason for which input metrics are disabled, "" if they are not:
\* envDisable is process.env.GPII_NO_INPUT_METRICS, siteDisable is
\* siteConfig.disable || siteConfig.disableInput.
DisabledBy(envDisable, siteDisable) ==
    IF envDisable THEN "GPII_NO_INPUT_METRICS"
    ELSE IF siteDisable THEN "siteConfig"
    ELSE ""

\* What startInputMetrics logs, fires and throws: `that` has the invoker
\* logMetric and no member logMetrics, so that the call of that.logMetrics
\* throws a TypeError.
startInputMetricsEmits(disable, electron) ==
    IF disable # ""
    THEN << Metric("fluid.log", "Input metrics disabled by " \o disable),
            Metric("throw", "TypeError: that.logMetrics is not a function") >>
    ELSE IF electron THEN <<>>
    ELSE <<Metric("fluid.log", "Input metrics not available without Electron.")>>

\* startInputMetrics.  electron is process.versions.electron ||
\* options.forceInputMetrics.
StartInputMetrics(envDisable, siteDisable, electron) ==
    LET disable == DisabledBy(envDisable, siteDisable)
    IN /\ timers' = stopInputMetricsClears
       /\ inactivityTimer' = 0
       /\ rawInputDevices' = IF disable = "" /\ electron
                             THEN {"mouse", "keyboard"} ELSE {}
       /\ emitted' = startInputMetricsEmits(disable, electron)
       /\ op' = [ name |-> "startInputMetrics", disable |-> disable,
                  electron |-> electron ]
       /\ UNCHANGED <<appVars, clockVars, keyVars, mouseVars, inactive, messages>>

(***************************************************************************)
(* startApplicationMetrics and stopApplicationMetrics                      *)
(***************************************************************************)
StartApplicationMetrics ==
    /\ messages' = TRUE
    /\ emitted' = <<>>
    /\ op' = [name |-> "startApplicationMetrics"]
    /\ UNCHANGED <<appVars, clockVars, keyVars, mouseVars, idleVars, timers, rawInputDevices>>

StopApplicationMetrics ==
    /\ messages' = FALSE
    /\ emitted' = <<>>
    /\ op' = [name |-> "stopApplicationMetrics"]
    /\ UNCHANGED <<appVars, clockVars, keyVars, mouseVars, idleVars, timers, rawInputDevices>>

(***************************************************************************)
(* windowMessage, WM_POWERBROADCAST                                        *)
(***************************************************************************)
\* Variant: the suspension is logged and no more
PowerSuspendLogged == <<Metric("power-suspend", <<>>)>>

\* What the suspension logs and fires.
PowerSuspendEmits ==
    <<Metric("power-suspend", <<>>), Metric("onInactive", [sleep |-> TRUE])>>

\* PBT_APMSUSPEND.  The onInactive listener calls userInactive(that).
PowerSuspend ==
    /\ emitted' = PowerSuspendEmits
    /\ inactive' = (inactive \/ NamedIn(emitted', "onInactive") # <<>>)
    /\ op' = [name |-> "powerSuspend"]
    /\ UNCHANGED <<appVars, clockVars, keyVars, mouseVars, inactivityTimer, systemVars>>

\* PBT_APMRESUMEAUTOMATIC
PowerResume ==
    /\ emitted' = <<Metric("power-resume", <<>>)>>
    /\ op' = [name |-> "powerResume"]
    /\ UNCHANGED <<appVars, clockVars, keyVars, mouseVars, idleVars, systemVars>>

(***************************************************************************)
(* Finite maps (JavaScript objects used as maps).                          *)
(***************************************************************************)
EmptyMap == [k \in {} |-> 0]

Put(map, key, value) == [k \in DOMAIN map \cup {key} |-> IF k = key THEN value ELSE map[k]]

Delete(map, key) == [k \in DOMAIN map \ {key} |-> map[k]]

(***************************************************************************)
(* getWindowInfo.  `os` is what the system answers for the window:         *)
(* pid (getWindowProcessId, 0 when it fails), path (getProcessPath, ""     *)
(* when it fails), cls (the class name, "" when GetClassNameW returns 0)   *)
(* and child, the first descendant of class Windows.UI.Core.CoreWindow     *)
(* that enumerateWindows finds (<<>> if none), with its own answers.       *)
(* A className of "" stands for null.                                      *)
(***************************************************************************)
WindowInfoOf(hwnd, answers) ==
    LET pid == answers.pid
        exe == IF pid # 0 THEN answers.path ELSE ""
    IN [ hwnd |-> hwnd,
         pid |-> pid,
         exe |-> IF exe = "" THEN "unknown-" \o NumToString(pid, 16) ELSE exe,
         className |-> answers.cls ]

getWindowInfo(hwnd, os) ==
    LET windowInfo == WindowInfoOf(hwnd, os)
        isAppFrame == windowInfo.className = "ApplicationFrameWindow"
    IN IF /\ isAppFrame
          /\ EndsWith(ToLowerCase(windowInfo.exe), "applicationframehost.exe")
          /\ os.child # <<>>
       THEN [WindowInfoOf(os.child[1].hwnd, os.child[1]) EXCEPT !.hwnd = hwnd]
       ELSE windowInfo

(***************************************************************************)
(* checkNewApplication.  An entry of runningApplications is an object, and *)
(* a pending poll keeps a reference to the entry it saw (runningApp).      *)
(* Each poll carries `current`: whether that object still is the entry of  *)
(* its pid.  Replacing or deleting the entry of a pid detaches the polls   *)
(* that refer to it.                                                       *)
(***************************************************************************)
Detach(pending, pid) ==
    [i \in DOMAIN pending |->
        IF pending[i].windowInfo.pid = pid
        THEN [pending[i] EXCEPT !.current = FALSE]
        ELSE pending[i]]

\* Variant: the exe of the entry is not looked at
IsNewApplicationByPid(apps, windowInfo) == windowInfo.pid \notin DOMAIN apps

\* pid might have been re-used.
IsNewApplication(apps, windowInfo) ==
    \/ windowInfo.pid \notin DOMAIN apps
    \/ apps[windowInfo.pid].exe # windowInfo.exe

\* Variant: the path as it is
AppDataRawPath(windowInfo) ==
    [ exe |-> windowInfo.exe,
      pid |-> windowInfo.pid,
      windowClass |-> windowInfo.className ]

AppData(windowInfo) ==
    [ exe |-> genericisePath(windowInfo.exe),
      pid |-> windowInfo.pid,
      windowClass |-> windowInfo.className ]

\* The new runningApplications, the polls and the records.
checkNewApplication(apps, windowInfo) ==
    IF IsNewApplication(apps, windowInfo)
    THEN [ apps |-> Put(apps, windowInfo.pid,
                        [exe |-> windowInfo.exe, closing |-> FALSE]),
           polls |-> Detach(polls, windowInfo.pid),
           out |-> <<Metric("app-launch", AppData(windowInfo))>> ]
    ELSE [ apps |-> apps, polls |-> polls, out |-> <<>> ]

(***************************************************************************)
(* logAppActivate                                                          *)
(***************************************************************************)
WindowId(windowInfo) ==
    NumToString(windowInfo.pid, 36) \o "-" \o NumToString(windowInfo.hwnd, 36)

ActivateData(windowInfo) ==
    [ exe |-> genericisePath(windowInfo.exe),
      window |-> WindowId(windowInfo),
      windowClass |-> windowInfo.className ]

logAppActivate(windowInfo, activated) ==
    Metric(IF activated THEN "app-active" ELSE "app-inactive", ActivateData(windowInfo))

(***************************************************************************)
(* windowCreated, windowDestroyed, windowActivated                         *)
(***************************************************************************)
\* The new knownWindows, runningApplications and polls, and the records.
windowCreated(hwnd, os) ==
    LET windowInfo == IF hwnd \in DOMAIN knownWindows
                      THEN knownWindows[hwnd]
                      ELSE getWindowInfo(hwnd, os)
        checked == checkNewApplication(runningApplications, windowInfo)
    IN [ knownWindows |-> Put(knownWindows, hwnd, windowInfo),
         apps |-> checked.apps,
         polls |-> checked.polls,
         out |-> checked.out ]

\* shellMessage, HSHELL_WINDOWCREATED
WindowCreated(hwnd, os) ==
    /\ hwnd # 0
    /\ LET new == windowCreated(hwnd, os)
       IN /\ knownWindows' = new.knownWindows
          /\ runningApplications' = new.apps
          /\ polls' = new.polls
          /\ emitted' = new.out
    /\ op' = [name |-> "windowCreated", hwnd |-> hwnd]
    /\ UNCHANGED <<activeWindow, currentProcess, appState>>
    /\ UNCHANGED <<keyVars, mouseVars, idleVars, systemVars, clockVars>>

\* Variant: the closing flag is not looked at
StartsPollEveryTime(windowInfo) == windowInfo.pid \in DOMAIN runningApplications

\* The guard of the poll for the end of the process.
StartsPoll(windowInfo) ==
    /\ windowInfo.pid \in DOMAIN runningApplications
    /\ ~runningApplications[windowInfo.pid].closing

\* windowDestroyed(hwnd).  A poll holds the time at which it began.
windowDestroyed(hwnd) ==
    /\ IF hwnd \in DOMAIN knownWindows
       THEN LET windowInfo == knownWindows[hwnd]
            IN /\ IF StartsPoll(windowInfo)
                  THEN /\ polls' = Append(polls,
                                     [ windowInfo |-> windowInfo, current |-> TRUE,
                                       begun |-> now ])
                       /\ runningApplications' =
                              [runningApplications EXCEPT ![windowInfo.pid].closing = TRUE]
                  ELSE UNCHANGED <<polls, runningApplications>>
               /\ knownWindows' = Delete(knownWindows, hwnd)
       ELSE UNCHANGED <<polls, runningApplications, knownWindows>>
    /\ emitted' = <<>>
    /\ op' = [name |-> "windowDestroyed", hwnd |-> hwnd]
    /\ UNCHANGED <<activeWindow, currentProcess, appState>>
    /\ UNCHANGED <<keyVars, mouseVars, idleVars, systemVars>>

\* shellMessage, HSHELL_WINDOWDESTROYED
WindowDestroyed(hwnd) == windowDestroyed(hwnd) /\ UNCHANGED clockVars

RemoveAt(seq, i) == SubSeq(seq, 1, i - 1) \o SubSeq(seq, i + 1, Len(seq))

\* waitForProcessTermination resolves: the process of the poll has ended.
ProcessTerminated(i) ==
    /\ i \in DOMAIN polls
    /\ LET windowInfo == polls[i].windowInfo
       IN /\ emitted' = <<Metric("app-close", AppData(windowInfo))>>
          /\ runningApplications' = Delete(runningApplications, windowInfo.pid)
          /\ polls' = Detach(RemoveAt(polls, i), windowInfo.pid)
          /\ op' = [name |-> "processTerminated", poll |-> polls[i]]
    /\ UNCHANGED <<knownWindows, activeWindow, currentProcess, appState>>
    /\ UNCHANGED <<keyVars, mouseVars, idleVars, systemVars, clockVars>>

\* Variant: the closing flag stays
PollTimeoutKeepsClosing(i) ==
    /\ i \in DOMAIN polls
    /\ polls' = RemoveAt(polls, i)
    /\ emitted' = <<>>
    /\ op' = [name |-> "pollTimeout", poll |-> polls[i]]
    /\ UNCHANGED <<knownWindows, runningApplications, activeWindow, currentProcess,
                   appState>>
    /\ UNCHANGED <<keyVars, mouseVars, idleVars, systemVars, clockVars>>

\* waitForProcessTermination rejects: the process is still there after the
\* timeout.  runningApp is the entry the poll saw when it began.
PollTimeout(i) ==
    /\ i \in DOMAIN polls
    /\ LET pid == polls[i].windowInfo.pid
       IN runningApplications' =
              IF polls[i].current
              THEN [runningApplications EXCEPT ![pid].closing = FALSE]
              ELSE runningApplications
    /\ polls' = RemoveAt(polls, i)
    /\ emitted' = <<>>
    /\ op' = [name |-> "pollTimeout", poll |-> polls[i]]
    /\ UNCHANGED <<knownWindows, activeWindow, currentProcess, appState>>
    /\ UNCHANGED <<keyVars, mouseVars, idleVars, systemVars, clockVars>>

\* process.pid
OwnPid == 300

\* Variant: the active handle is not compared
ActivationAlways(hwnd) == TRUE

\* The guard of the whole body of windowActivated.
ActivationChanges(hwnd) == hwnd # activeWindow

\* Variant: the window that is losing focus is not logged
DeactivationUnlogged == <<>>

\* The record for the window that is losing focus.
Deactivation ==
    IF activeWindow \in DOMAIN knownWindows
    THEN <<logAppActivate(knownWindows[activeWindow], FALSE)>>
    ELSE <<>>

\* windowActivated(hwnd).  foreground is what GetForegroundWindow() returns.
WindowActivated(hwndArg, foreground, os) ==
    LET hwnd == IF hwndArg = 0 THEN foreground ELSE hwndArg
    IN /\ IF ActivationChanges(hwnd)
          THEN LET old == Deactivation
                   created == IF hwnd \in DOMAIN knownWindows
                              THEN [ knownWindows |-> knownWindows,
                                     apps |-> runningApplications,
                                     polls |-> polls, out |-> <<>> ]
                              ELSE windowCreated(hwnd, os)
               IN IF hwnd # 0
                  THEN LET windowInfo == created.knownWindows[hwnd]
                       IN /\ knownWindows' = created.knownWindows
                          /\ runningApplications' = created.apps
                          /\ polls' = created.polls
                          /\ currentProcess' =
                                 <<[ pid |-> windowInfo.pid,
                                     exe |-> genericisePath(windowInfo.exe) ]>>
                          /\ appState' = IF windowInfo.pid = OwnPid
                                         THEN "active" ELSE "null"
                          /\ emitted' = old \o created.out
                                        \o <<logAppActivate(windowInfo, TRUE)>>
                  ELSE /\ emitted' = old
                       /\ appState' = IF old # <<>> THEN "null" ELSE appState
                       /\ UNCHANGED <<knownWindows, runningApplications,
                                      currentProcess, polls>>
          ELSE /\ emitted' = <<>>
               /\ UNCHANGED <<knownWindows, runningApplications, currentProcess,
                              appState, polls>>
       /\ activeWindow' = hwnd
       /\ op' = [name |-> "windowActivated", hwnd |-> hwnd, given |-> hwndArg]
       /\ UNCHANGED <<keyVars, mouseVars, idleVars, systemVars, clockVars>>

(***************************************************************************)
(* The state after construction.                                           *)
(***************************************************************************)
Undefined == -1

Init ==
    /\ knownWindows = EmptyMap
    /\ runningApplications = EmptyMap
    /\ activeWindow = Undefined
    /\ currentProcess = <<>>
    /\ appState = "null"
    /\ polls = <<>>
    /\ lastKeyTime = 0
    /\ sessionStart = 0
    /\ keyCount = 0
    /\ specialCount = 0
    /\ lastPos = <<>>
    /\ distance = 0
    /\ inactive = FALSE
    /\ inactivityTimer = 0
    /\ timers = {}
    /\ rawInputDevices = {}
    /\ messages = FALSE
    /\ now = 0
    /\ ended = EmptyMap
    /\ destroyedAt = EmptyMap
    /\ emitted = <<>>
    /\ op = [name |-> "init"]

(***************************************************************************)
(* Keyboard input alone.                                                   *)
(***************************************************************************)
MaxKeys == 11
MaxSpecial == 1

RealDevice == 65599

TimeStamps ==
    {0, 1000, 2000, 3000, 4000, 5000, 6000, 7000, 8000, 9000,
     31000, 31001, 89000, 160000}

\* A, RETURN
KeyVKeys == {65, 13}

\* What one WM_INPUT message brings: <<packet, GetMessageTime(), keys held>>.
KeyInputs ==
    {<<KeyPacket(RealDevice, WM_KEYUP, v), t, {}>> : v \in KeyVKeys, t \in TimeStamps}
    \cup {<<KeyPacket(0, WM_KEYUP, 65), 1000, {}>>,
          <<KeyPacket(RealDevice, WM_KEYDOWN, 65), 1000, {}>>}

InputWithinBounds == keyCount' <= MaxKeys /\ specialCount' <= MaxSpecial

KeyEvent ==
    \E in \in KeyInputs :
        /\ handleWMINPUT(0, 1, in[1], in[2], in[3])
        /\ InputWithinBounds

NextKey == KeyEvent

SpecKey == Init /\ [][NextKey]_vars

(***************************************************************************)
(* Keyboard input with timestamps that go back, and that are 60000,        *)
(* 60001 and 70000 ms apart.                                               *)
(***************************************************************************)
GapTimeStamps == {995, 1000, 61000, 61001, 71000}

GapInputs ==
    {<<KeyPacket(RealDevice, WM_KEYUP, v), t, {}>> :
        v \in KeyVKeys, t \in GapTimeStamps}

GapEvent ==
    \E in \in GapInputs :
        /\ handleWMINPUT(0, 1, in[1], in[2], in[3])
        /\ InputWithinBounds

NextGap == GapEvent

SpecGap == Init /\ [][NextGap]_vars

(***************************************************************************)
(* Pointer input alone.                                                    *)
(***************************************************************************)
MouseDeltas ==
    {<<0, 0>>, <<-3000, 4000>>, <<30000, 0>>, <<40000, 40000>>, <<70000, 0>>}

\* usButtonFlags with usButtonData
MouseButtons ==
    {<<{}, 0>>, <<{RI_MOUSE_LEFT_BUTTON_UP}, 0>>, <<{RI_MOUSE_RIGHT_BUTTON_UP}, 0>>,
     <<{RI_MOUSE_LEFT_BUTTON_DOWN}, 0>>, <<{RI_MOUSE_WHEEL}, 120>>,
     <<{RI_MOUSE_WHEEL}, 65416>>}

MouseInputs ==
    {<<MousePacket(RealDevice, b[1], b[2], d[1], d[2]), 1000, {}>> :
        b \in MouseButtons, d \in MouseDeltas}
    \cup {<<MousePacket(RealDevice, {RI_MOUSE_LEFT_BUTTON_UP}, 0, 0, 0), 1000,
            {"SHIFT", "ALT"}>>,
          <<MousePacket(0, {RI_MOUSE_LEFT_BUTTON_UP}, 0, 30000, 0), 1000, {}>>,
          <<MousePacket(0, {}, 0, 30000, 0), 1000, {}>>}

MouseEvent ==
    \E in \in MouseInputs : handleWMINPUT(0, 1, in[1], in[2], in[3])

NextMouse == MouseEvent

SpecMouse == Init /\ [][NextMouse]_vars

(***************************************************************************)
(* Keyboard and pointer input, injected input, failing queries and the     *)
(* inactivity timer together, over fewer samples.                          *)
(***************************************************************************)
\* A, RETURN, SPACE, CAPITAL (no character, not special)
MixedVKeys == {65, 13, 32, 20}

\* <<packet, GetMessageTime(), keys held, results of the two GetRawInputData
\* calls (-1 is failure)>>
MixedInputs ==
    {<<KeyPacket(RealDevice, WM_KEYUP, v), t, down, <<0, 1>> >> :
        v \in MixedVKeys, t \in {1000, 2000, 100000}, down \in {{}, {"CTRL"}}}
    \cup {<<KeyPacket(RealDevice, WM_KEYUP, 13), 2000, {"SHIFT", "ALT"}, <<0, 1>> >>,
          <<KeyPacket(RealDevice, WM_KEYDOWN, 65), 2000, {}, <<0, 1>> >>,
          <<KeyPacket(0, WM_KEYUP, 65), 2000, {}, <<0, 1>> >>,
          <<KeyPacket(0, WM_KEYUP, 13), 100000, {"CTRL"}, <<0, 1>> >>,
          <<KeyPacket(RealDevice, WM_KEYUP, 65), 2000, {}, <<0, -1>> >>,
          <<KeyPacket(RealDevice, WM_KEYUP, 65), 2000, {}, <<-1, -1>> >>,
          <<MousePacket(RealDevice, {RI_MOUSE_LEFT_BUTTON_UP}, 0, 30000, 0),
            1000, {}, <<0, -1>> >>}
    \cup {<<MousePacket(h, b[1], b[2], 30000, 0), 1000, {}, <<0, 1>> >> :
            h \in {0, RealDevice},
            b \in {<<{}, 0>>, <<{RI_MOUSE_LEFT_BUTTON_UP}, 0>>,
                   <<{RI_MOUSE_WHEEL}, 65416>>}}

MixedEvent ==
    \E in \in MixedInputs :
        /\ handleWMINPUT(in[4][1], in[4][2], in[1], in[2], in[3])
        /\ InputWithinBounds

TimerEvent == \E timer \in timers : InactivityTimeout(timer)

NextInput == MixedEvent \/ TimerEvent

SpecInput == Init /\ [][NextInput]_vars

(***************************************************************************)
(* Input, the inactivity timer, power notifications, and the start and the *)
(* stop of the input and application metrics, in any order.                *)
(***************************************************************************)
IdleInputs ==
    { <<KeyPacket(RealDevice, WM_KEYUP, 65), 1000, <<0, 1>> >>,
      <<KeyPacket(0, WM_KEYUP, 65), 1000, <<0, 1>> >>,
      <<MousePacket(RealDevice, {}, 0, 30000, 0), 1000, <<0, 1>> >>,
      <<KeyPacket(RealDevice, WM_KEYUP, 65), 1000, <<-1, -1>> >>,
      <<KeyPacket(RealDevice, WM_KEYUP, 65), 1000, <<0, -1>> >> }

IdleEvent ==
    \E in \in IdleInputs :
        /\ handleWMINPUT(in[3][1], in[3][2], in[1], in[2], {})
        /\ InputWithinBounds

StartInputEvent ==
    \E envDisable \in BOOLEAN, siteDisable \in BOOLEAN, electron \in BOOLEAN :
        StartInputMetrics(envDisable, siteDisable, electron)

NextIdle ==
    \/ IdleEvent
    \/ TimerEvent
    \/ StartInputEvent
    \/ StopInputMetrics
    \/ StartApplicationMetrics
    \/ StopApplicationMetrics
    \/ PowerSuspend
    \/ PowerResume

SpecIdle == Init /\ [][NextIdle]_vars

(***************************************************************************)
(* Typing, and stopInputMetrics called at any point of it.                 *)
(***************************************************************************)
StopTimeStamps ==
    {1000, 2000, 3000, 4000, 5000, 6000, 7000, 8000, 9000, 31001}

StopInputs ==
    {<<KeyPacket(RealDevice, WM_KEYUP, 65), t, {}>> : t \in StopTimeStamps}

StopKeyEvent ==
    \E in \in StopInputs :
        /\ handleWMINPUT(0, 1, in[1], in[2], in[3])
        /\ InputWithinBounds

NextStop == StopKeyEvent \/ StopInputMetrics

SpecStop == Init /\ [][NextStop]_vars

(***************************************************************************)
(* Typing with a pause of more than eleven minutes after a key.            *)
(***************************************************************************)
PauseTimeStamps ==
    {1000, 700001, 700002, 700003, 700004, 700005, 700006, 700007, 700008,
     700009, 800000}

PauseInputs ==
    {<<KeyPacket(RealDevice, WM_KEYUP, 65), t, {}>> : t \in PauseTimeStamps}

PauseEvent ==
    \E in \in PauseInputs :
        /\ handleWMINPUT(0, 1, in[1], in[2], in[3])
        /\ InputWithinBounds

NextPause == PauseEvent

SpecPause == Init /\ [][NextPause]_vars

(***************************************************************************)
(* Window and shell notifications.                                         *)
(***************************************************************************)
MaxPolls == 2

Hwnds == {1, 2}

Answer(pid, path, cls) ==
    [hwnd |-> 0, pid |-> pid, path |-> path, cls |-> cls, child |-> <<>>]

Notepad == Answer(100, "C:\\Windows\\notepad.exe", "Notepad")

\* The pid of Notepad, used again by another program.
Reused == Answer(100, "C:/Users/Alice/AppData/Roaming/x.exe", "X")

Own == Answer(OwnPid, "C:\\Program Files (x86)\\GPII\\gpii.exe", "")

NoProcess == Answer(0, "", "")

FrameHost ==
    Answer(200, "c:\\windows\\ApplicationFrameHost.exe", "ApplicationFrameWindow")

Calculator ==
    [ FrameHost EXCEPT !.child =
        <<[Answer(100, "D:\\calc.exe", "Windows.UI.Core.CoreWindow") EXCEPT !.hwnd = 9]>> ]

CreateEvent(answers) == \E hwnd \in Hwnds, os \in answers : WindowCreated(hwnd, os)

\* A handle that was never seen may be destroyed too.
DestroyEvent ==
    \E hwnd \in Hwnds \cup {3} :
        /\ WindowDestroyed(hwnd)
        /\ Len(polls') <= MaxPolls

ActivateEvent(answers) ==
    \E hwnd \in Hwnds \cup {0}, foreground \in Hwnds \cup {0}, os \in answers :
        /\ hwnd # 0 => foreground = 0
        /\ WindowActivated(hwnd, foreground, os)

TerminatedEvent == \E i \in 1..MaxPolls : ProcessTerminated(i)

TimeoutEvent == \E i \in 1..MaxPolls : PollTimeout(i)

\* Windows that come, go and get the focus.
WinAnswers == {Notepad, Own}

NextWin ==
    \/ CreateEvent(WinAnswers)
    \/ DestroyEvent
    \/ ActivateEvent(WinAnswers)
    \/ TerminatedEvent
    \/ TimeoutEvent

SpecWin == Init /\ [][NextWin]_vars

\* Windows that come and go, with every answer the system may give.
PollAnswers == {Notepad, Reused, NoProcess, Calculator}

NextPoll ==
    \/ CreateEvent(PollAnswers)
    \/ DestroyEvent
    \/ TerminatedEvent
    \/ TimeoutEvent

SpecPoll == Init /\ [][NextPoll]_vars

(***************************************************************************)
(* Windows that come and go, with the time.  Time goes on in steps of      *)
(* 10000 ms; a process ends at some time; a poll resolves when its process *)
(* has ended (it looks every 1000 ms, so within the step) and rejects when *)
(* 20000 ms have gone since it began and the process is still there.       *)
(***************************************************************************)
MaxTime == 30000
TickMs == 10000

\* waitForProcessTermination(pid, {pollDelay: 1000, timeout: 20000})
PollTimeoutMs == 20000

\* No poll has a result to give before time goes on.
Tick ==
    /\ now < MaxTime
    /\ \A i \in DOMAIN polls :
          /\ now < polls[i].begun + PollTimeoutMs
          /\ polls[i].windowInfo.pid \notin DOMAIN ended
    /\ now' = now + TickMs
    /\ emitted' = <<>>
    /\ op' = [name |-> "tick"]
    /\ UNCHANGED <<appVars, keyVars, mouseVars, idleVars, systemVars, ended,
                   destroyedAt>>

\* The process of a running application ends.
ProcessEnds(pid) ==
    /\ pid \in DOMAIN runningApplications
    /\ pid \notin DOMAIN ended
    /\ ended' = Put(ended, pid, now)
    /\ emitted' = <<>>
    /\ op' = [name |-> "processEnds", pid |-> pid]
    /\ UNCHANGED <<appVars, keyVars, mouseVars, idleVars, systemVars, now,
                   destroyedAt>>

\* A process that has ended creates no window.
TimedCreated(hwnd, os) ==
    /\ os.pid \notin DOMAIN ended
    /\ WindowCreated(hwnd, os)

TimedDestroyed(hwnd) ==
    /\ windowDestroyed(hwnd)
    /\ destroyedAt' =
           IF /\ hwnd \in DOMAIN knownWindows
              /\ knownWindows[hwnd].pid \in DOMAIN runningApplications
           THEN Put(destroyedAt, knownWindows[hwnd].pid, now)
           ELSE destroyedAt
    /\ UNCHANGED <<now, ended>>

PollResolves(i) ==
    /\ i \in DOMAIN polls
    /\ polls[i].windowInfo.pid \in DOMAIN ended
    /\ ProcessTerminated(i)

PollRejects(i) ==
    /\ i \in DOMAIN polls
    /\ polls[i].windowInfo.pid \notin DOMAIN ended
    /\ now >= polls[i].begun + PollTimeoutMs
    /\ PollTimeout(i)

ClockAnswers == {Notepad, Own}

NextClock ==
    \/ \E hwnd \in Hwnds, os \in ClockAnswers : TimedCreated(hwnd, os)
    \/ \E hwnd \in Hwnds : TimedDestroyed(hwnd)
    \/ \E pid \in {os.pid : os \in ClockAnswers} : ProcessEnds(pid)
    \/ \E i \in 1..MaxPolls : PollResolves(i)
    \/ \E i \in 1..MaxPolls : PollRejects(i)
    \/ Tick

SpecClock == Init /\ [][NextClock]_vars

(***************************************************************************)
(* genericisePath on its own: a path and an environment are given, and the *)
(* function is called with them.                                           *)
(***************************************************************************)
PathInputs ==
    { "",
      "C:\\Users\\alice\\AppData\\Roaming\\x",
      "c:/users/ALICE/appdata/roaming//x",
      "C:\\Users\\alice",
      "C:\\Users\\bob\\x",
      "C:\\Windows\\notepad.exe",
      "C:\\Windowsfoo\\x",
      "C:\\Program Files (x86)\\GPII\\gpii.exe",
      "D:\\calc.exe",
      "unknown-0" }

EnvInputs ==
    { ProcessEnv,
      [k \in {} |-> ""],
      [APPDATA |-> "C:\\Users\\alice\\AppData\\Roaming"],
      [USERPROFILE |-> "C:\\Users\\alice"],
      [USERPROFILE |-> "C:\\Users\\alice",
       APPDATA |-> "C:\\Users\\alice\\AppData\\Roaming"],
      [USERPROFILE |-> "c:/USERS/Alice\\\\", APPDATA |-> ""],
      [SystemRoot |-> "C:\\", ProgramFiles |-> "C:\\Program Files (x86)"] }

InitPath ==
    /\ knownWindows = EmptyMap
    /\ runningApplications = EmptyMap
    /\ activeWindow = Undefined
    /\ currentProcess = <<>>
    /\ appState = "null"
    /\ polls = <<>>
    /\ lastKeyTime = 0
    /\ sessionStart = 0
    /\ keyCount = 0
    /\ specialCount = 0
    /\ lastPos = <<>>
    /\ distance = 0
    /\ inactive = FALSE
    /\ inactivityTimer = 0
    /\ timers = {}
    /\ rawInputDevices = {}
    /\ messages = FALSE
    /\ now = 0
    /\ ended = EmptyMap
    /\ destroyedAt = EmptyMap
    /\ emitted = <<>>
    /\ \E rawPath \in PathInputs, env \in EnvInputs :
          op = [name |-> "given", rawPath |-> rawPath, env |-> env]

\* genericisePath(rawPath, env); emitted holds what it returns.
GenericisePathCall ==
    /\ op.name = "given"
    /\ op' = [op EXCEPT !.name = "genericisePath"]
    /\ emitted' = <<Metric("genericisePath", genericisePathEnv(op.rawPath, op.env))>>
    /\ UNCHANGED <<appVars, clockVars, keyVars, mouseVars, idleVars, systemVars>>

NextPath == GenericisePathCall

SpecPath == InitPath /\ [][NextPath]_vars

(***************************************************************************)
(* Properties.                                                             *)
(***************************************************************************)
IsActivation(r) == r.name \in {"app-active", "app-inactive"}

\* C1: a key-up that reaches recordKeyTiming logs a typing-session record
\* exactly when it ends an open session (keyCount > 0, keyTime of the key 0)
\* whose duration, lastKeyTime - sessionStart, is over 30000 ms and whose key
\* count is at least 10; no other step logs one, and no step logs two.
C1_SessionRecordedIff ==
    [][ LET keyTimes == NamedIn(emitted', "key-time")
            sessions == NamedIn(emitted', "typing-session")
        IN /\ Len(sessions) <= 1
           /\ Len(sessions) = 1 <=>
                 /\ Len(keyTimes) = 1
                 /\ keyCount > 0
                 /\ keyTimes[1].data.keyTime = 0
                 /\ lastKeyTime - sessionStart > 30000
                 /\ keyCount >= 10 ]_vars

C1_Witness ==
    /\ Len(Named("typing-session")) = 1
    /\ Named("typing-session")[1].data.count >= 10
    /\ Named("typing-session")[1].data.duration > 30000

\* C2: with window A active and known, windowActivated for another window B
\* logs app-inactive for A and then app-active for B, and no other app-active
\* or app-inactive record.
C2_ActivationPair ==
    [][ ( /\ op'.name = "windowActivated"
          /\ activeWindow \in DOMAIN knownWindows
          /\ op'.hwnd \in Hwnds
          /\ op'.hwnd # activeWindow )
        => LET acts == SelectSeq(emitted', IsActivation)
           IN /\ Len(acts) = 2
              /\ acts[1].name = "app-inactive"
              /\ acts[1].data.window = WindowId(knownWindows[activeWindow])
              /\ acts[2].name = "app-active"
              /\ acts[2].data.window = WindowId(knownWindows'[op'.hwnd])
              /\ knownWindows'[op'.hwnd].hwnd = op'.hwnd ]_vars

C2_Witness ==
    /\ op.name = "windowActivated"
    /\ Len(emitted) = 2
    /\ emitted[1].name = "app-inactive"
    /\ emitted[2].name = "app-active"
    /\ emitted[1].data.window # emitted[2].data.window

\* C3: windowActivated with the handle that is the active handle already,
\* given or taken from the foreground window, logs nothing and leaves
\* knownWindows, runningApplications, currentProcess and the active handle as
\* they were.
C3_ReactivationNoOp ==
    [][ (op'.name = "windowActivated" /\ op'.hwnd = activeWindow)
        => /\ emitted' = <<>>
           /\ UNCHANGED <<knownWindows, runningApplications, currentProcess,
                          activeWindow>> ]_vars

C3_Witness ==
    /\ op.name = "windowActivated"
    /\ op.given = 0
    /\ op.hwnd \in DOMAIN knownWindows
    /\ op.hwnd = activeWindow
    /\ emitted = <<>>

\* C4: when the poll that the destruction of a known window began finds the
\* process gone, exactly one app-close record is logged, for that process, and
\* the pid has no running-application entry afterwards; and an entry never has
\* two polls pending, however many windows of its process are destroyed.
C4_OneClosePerProcess ==
    [][ /\ op'.name = "processTerminated"
           => /\ Len(emitted') = 1
              /\ emitted'[1].name = "app-close"
              /\ emitted'[1].data.pid = op'.poll.windowInfo.pid
              /\ emitted'[1].data.windowClass = op'.poll.windowInfo.className
              /\ op'.poll.windowInfo.pid \notin DOMAIN runningApplications'
        /\ \A i, j \in DOMAIN polls' :
              ( /\ polls'[i].current
                /\ polls'[j].current
                /\ polls'[i].windowInfo.pid = polls'[j].windowInfo.pid ) => i = j
        /\ op'.name # "processTerminated"
              => NamedIn(emitted', "app-close") = <<>> ]_vars

C4_Witness ==
    /\ op.name = "processTerminated"
    /\ op.poll.current
    /\ Len(Named("app-close")) = 1
    /\ DOMAIN knownWindows = {}
    /\ polls = <<>>

\* C5: when the poll times out, no record is logged, no running-application
\* entry is removed or changes its exe, and the entry the poll began with has
\* its closing flag cleared, so that the destruction of another window of the
\* process begins a poll again.
C5_TimeoutClearsClosing ==
    [][ op'.name = "pollTimeout"
        => /\ emitted' = <<>>
           /\ DOMAIN runningApplications' = DOMAIN runningApplications
           /\ \A p \in DOMAIN runningApplications :
                 runningApplications'[p].exe = runningApplications[p].exe
           /\ op'.poll.current
                 => /\ op'.poll.windowInfo.pid \in DOMAIN runningApplications'
                    /\ ~runningApplications'[op'.poll.windowInfo.pid].closing ]_vars

C5_Witness ==
    /\ op.name = "pollTimeout"
    /\ op.poll.current
    /\ \E h \in DOMAIN knownWindows :
          /\ knownWindows[h].pid = op.poll.windowInfo.pid
          /\ StartsPoll(knownWindows[h])

C7_SpecialKeysNotPrintable ==
    \A i \in DOMAIN emitted :
        ( /\ emitted[i].name = "key-time"
          /\ op.rawInput.VKey \in DOMAIN specialKeys )
        => ~IsPrintable(MapVirtualKeyW(op.rawInput.VKey))

\* C8: input from the device handle 0 leaves the typing-session state and the
\* pointer state as they were and logs no key-time, typing-session or mouse
\* record; it restarts the inactivity timer.
C8_InjectedInputIgnored ==
    [][ (op'.name = "handleWMINPUT" /\ op'.rawInput.hDevice = 0)
        => /\ UNCHANGED <<keyVars, mouseVars>>
           /\ \A i \in DOMAIN emitted' :
                 emitted'[i].name \notin {"key-time", "typing-session", "mouse"}
           /\ ~inactive'
           /\ inactivityTimer' \in timers' ]_vars

C8_Witness ==
    /\ op.name = "handleWMINPUT"
    /\ op.resolved
    /\ op.rawInput.hDevice = 0
    /\ op.rawInput.dwType = RIM_TYPEKEYBOARD
    /\ op.rawInput.Message = WM_KEYUP
    /\ keyCount > 0
    /\ distance > 0

\* C9: the exe of every app-launch, app-active, app-inactive and app-close
\* record is genericisePath of the executable path of the window the record
\* is about.
C9_PathsGenericised ==
    [][ \A i \in DOMAIN emitted' :
            LET r == emitted'[i]
            IN /\ r.name = "app-launch"
                  => r.data.exe = genericisePath(runningApplications'[r.data.pid].exe)
               /\ r.name = "app-active"
                  => r.data.exe = genericisePath(knownWindows'[op'.hwnd].exe)
               /\ r.name = "app-inactive"
                  => r.data.exe = genericisePath(knownWindows[activeWindow].exe)
               /\ r.name = "app-close"
                  => r.data.exe = genericisePath(op'.poll.windowInfo.exe) ]_vars

C9_Witness ==
    /\ Len(Named("app-close")) = 1
    /\ Named("app-close")[1].data.exe = "%SystemRoot%\\notepad.exe"
    /\ op.poll.windowInfo.exe = "C:\\Windows\\notepad.exe"

\* C10: the pointer accumulator is at most 65535 after every call of
\* recordMouseEvent, and no mouse record has a distance of 65536 or more.
C10_DistanceBounded ==
    /\ distance <= 2 * 65535
    /\ \A i \in DOMAIN emitted :
          (emitted[i].name = "mouse" /\ "distance" \in DOMAIN emitted[i].data)
          => emitted[i].data.distance < 65536

C10_Witness ==
    /\ Len(Named("mouse")) = 1
    /\ "distance" \in DOMAIN Named("mouse")[1].data
    /\ Named("mouse")[1].data.distance = 56569

\* A movement of (x, y) from a real device, no button and no wheel.
Moved(o, x, y) ==
    o.name = "handleWMINPUT" /\ o.rawInput = MousePacket(RealDevice, {}, 0, x, y)

\* A release of the left button from a real device, without movement.
Released(o) ==
    /\ o.name = "handleWMINPUT"
    /\ o.rawInput = MousePacket(RealDevice, {RI_MOUSE_LEFT_BUTTON_UP}, 0, 0, 0)

ReportedDistance(log) == NamedIn(log, "mouse")[1].data.distance

\* C11 as stated: a movement of (40000, 40000) leaves the accumulator at 0,
\* and the button release that follows it reports a distance without it.
C11_LargeDeltaDropped ==
    [][ /\ Moved(op', 40000, 40000) => distance' = 0
        /\ (Moved(op, 40000, 40000) /\ Released(op'))
              => ReportedDistance(emitted') = 0 ]_vars

\* C11, amended: the length of (40000, 40000) is 56568.5, under the ceiling of
\* 65535, so an empty accumulator holds it after the movement and the button
\* release that follows reports 56569 and empties the accumulator; a movement
\* of (70000, 0), over the ceiling, leaves the accumulator at 0 and the button
\* release that follows reports 0.
C11_DeltaUnderCeilingReported ==
    [][ /\ (Moved(op', 40000, 40000) /\ lastPos # <<>> /\ distance = 0)
              => distance' = 113137
        /\ (Moved(op, 40000, 40000) /\ distance = 113137 /\ Released(op'))
              => ReportedDistance(emitted') = 56569 /\ distance' = 0
        /\ (Moved(op', 70000, 0) /\ lastPos # <<>>) => distance' = 0
        /\ (Moved(op, 70000, 0) /\ lastPos # <<>> /\ Released(op'))
              => ReportedDistance(emitted') = 0 /\ distance' = 0 ]_vars

C11_Witness ==
    /\ Released(op)
    /\ distance = 0
    /\ Len(Named("mouse")) = 1
    /\ ReportedDistance(emitted) = 56569

\* C12: the keyTime of every key-time record is in 0..60000: it is 0 for the
\* first key, 0 when the key comes before the last one (-5) or more than
\* 60000 ms after it (70000), and the time since the last key otherwise.
C12_KeyTimeClamped ==
    [][ \A i \in DOMAIN emitted' :
            emitted'[i].name = "key-time"
            => LET keyTime == emitted'[i].data.keyTime
                   gap == lastKeyTime' - lastKeyTime
               IN /\ keyTime \in 0..60000
                  /\ lastKeyTime = 0 => keyTime = 0
                  /\ (gap < 0 \/ gap > 60000) => keyTime = 0
                  /\ (lastKeyTime # 0 /\ gap \in 0..60000) => keyTime = gap ]_vars

\* The second key of a session came 5 ms before the first.
C12_Witness ==
    /\ sessionStart = 1000
    /\ lastKeyTime = 995
    /\ keyCount = 2
    /\ Len(Named("key-time")) = 1
    /\ Named("key-time")[1].data.keyTime = 0

\* C13: in every typing-session record, rate is 60000 * count / duration
\* rounded to the nearest integer (a half goes up), count and duration being
\* those of the record, the key count and lastKeyTime - sessionStart of the
\* session that ends, and corrections is the count of its special keys.
C13_RateIsRoundedQuotient ==
    [][ \A i \in DOMAIN emitted' :
            emitted'[i].name = "typing-session"
            => LET data == emitted'[i].data
               IN /\ data.count = keyCount
                  /\ data.duration = lastKeyTime - sessionStart
                  /\ data.corrections = specialCount
                  /\ 2 * data.duration * data.rate
                        <= 2 * 60000 * data.count + data.duration
                  /\ 2 * 60000 * data.count + data.duration
                        < 2 * data.duration * (data.rate + 1) ]_vars

\* The value of a variable as it is compared: normalized, without backslashes
\* at the end, in lower case.
PrefixOf(env, name) == ToLowerCase(StripTrailingSeps(Normalize(env[name])))

\* Whether the variable is set and its value begins the path, whatever the
\* case of the letters.
IsPrefixVariable(env, name, rawPath) ==
    /\ name \in DOMAIN env
    /\ env[name] # ""
    /\ StartsWith(ToLowerCase(Normalize(rawPath)), PrefixOf(env, name))

C15_ActiveOnInput ==
    [][ /\ op'.name = "handleWMINPUT"
           => /\ ~inactive'
              /\ Len(NamedIn(emitted', "onActive")) = (IF inactive THEN 1 ELSE 0)
        /\ op'.name # "handleWMINPUT" => NamedIn(emitted', "onActive") = <<>>
        /\ op'.name = "userInactive"
           => /\ inactive'
              /\ op'.timer = inactivityTimer
        /\ (inactive' /\ ~inactive)
           => op'.name \in {"userInactive", "powerSuspend"} ]_vars

C15_Witness ==
    /\ op.name = "handleWMINPUT"
    /\ ~inactive
    /\ Named("onActive") = <<Metric("onActive", <<>>)>>
    /\ timers = {inactivityTimer}

\* C16: at most one timer is pending, and it is the one the state holds: the
\* input that sets a timer has cleared the one set before.
C16_OneTimerPending ==
    /\ Cardinality(timers) <= 1
    /\ timers \subseteq {inactivityTimer}

\* The second of two keys, with no inactivity between them.
C16_Witness ==
    /\ op.name = "handleWMINPUT"
    /\ keyCount = 2
    /\ Named("onActive") = <<>>
    /\ Cardinality(timers) = 1

\* C17: when stopInputMetrics returns (startInputMetrics begins with it) no
\* timer is pending, and none is until input comes: no timer makes the
\* engine inactive in between.
C17_StopClearsTimer ==
    [][ /\ op'.name \in {"stopInputMetrics", "startInputMetrics"}
           => timers' = {} /\ inactivityTimer' = 0
        /\ (timers = {} /\ op'.name # "handleWMINPUT")
           => timers' = {} /\ op'.name # "userInactive" ]_vars

\* Input came, the engine is active, and the metrics were stopped.
C17_Witness ==
    /\ op.name = "stopInputMetrics"
    /\ keyCount > 0
    /\ ~inactive
    /\ timers = {}
    /\ messages

\* C18: the suspension logs power-suspend, then fires onInactive with
\* {sleep: true} and leaves the engine inactive, whether or not a timer is
\* pending; the resumption logs power-resume and fires nothing, and leaves
\* the engine as inactive as it was.
C18_SuspendForcesInactive ==
    [][ /\ op'.name = "powerSuspend"
           => /\ emitted' = << Metric("power-suspend", <<>>),
                               Metric("onInactive", [sleep |-> TRUE]) >>
              /\ inactive'
              /\ timers' = timers
        /\ op'.name = "powerResume"
           => /\ emitted' = <<Metric("power-resume", <<>>)>>
              /\ inactive' = inactive ]_vars

\* The engine was active and its timer pending when the system suspended.
C18_Witness ==
    /\ op.name = "powerSuspend"
    /\ inactive
    /\ timers = {1}
    /\ Len(emitted) = 2

\* C19: startInputMetrics with input metrics disabled logs one
\* input-disabled record with the reason, registers no device and throws
\* nothing.
C19_DisabledIsLogged ==
    [][ (op'.name = "startInputMetrics" /\ op'.disable # "")
        => /\ Len(NamedIn(emitted', "input-disabled")) = 1
           /\ NamedIn(emitted', "input-disabled")[1].data = [reason |-> op'.disable]
           /\ rawInputDevices' = {}
           /\ NamedIn(emitted', "throw") = <<>> ]_vars

\* C20: when one of the two GetRawInputData calls fails, getRawInputData
\* rejects with the error that has the code of GetLastError, the error is
\* logged, and no key-time, typing-session or mouse record is logged and the
\* state of the keys and of the pointer stays as it was.
C20_FailedQueryRejects ==
    [][ ( /\ op'.name = "handleWMINPUT"
          /\ (op'.queries[1] # 0 \/ op'.queries[2] < 0) )
        => /\ ~op'.resolved
           /\ Len(NamedIn(emitted', "fluid.log")) = 1
           /\ NamedIn(emitted', "fluid.log")[1].data.errorCode = "GetLastError()"
           /\ \A i \in DOMAIN emitted' :
                 emitted'[i].name \notin {"key-time", "typing-session", "mouse"}
           /\ UNCHANGED <<keyVars, mouseVars>> ]_vars

\* C21: a key-up whose key time is 0 that comes while a typing session is
\* open (keyCount > 0) closes the session, a session of one key too: after a
\* character key the count is 1, there are no corrections and the session
\* starts at that key; after a special key no session is open.
C21_BoundaryClosesSession ==
    [][ ( /\ keyCount > 0
          /\ Len(NamedIn(emitted', "key-time")) = 1
          /\ NamedIn(emitted', "key-time")[1].data.keyTime = 0 )
        => IF SpecialKeyOf(op'.rawInput.VKey) = ""
           THEN /\ keyCount' = 1
                /\ specialCount' = 0
                /\ sessionStart' = lastKeyTime'
           ELSE keyCount' = 0 ]_vars

\* A pointer sample of a real device that recordMouseEvent is called with.
MouseCall(o) ==
    /\ o.name = "handleWMINPUT"
    /\ o.resolved
    /\ o.rawInput.dwType = RIM_TYPEMOUSE
    /\ FromDevice(o.rawInput)
    /\ RelevantMouseEvent(o.rawInput)

\* The sample takes the accumulator over the ceiling of 65535 pixels.
OverCeiling(o) ==
    /\ lastPos # <<>>
    /\ distance + NormHalves(o.rawInput.lLastX, o.rawInput.lLastY)
          > 2 * DistanceCeiling

IsWheelRecord(r) == r.name = "mouse" /\ "wheel" \in DOMAIN r.data

IsButtonRecord(r) == r.name = "mouse" /\ "button" \in DOMAIN r.data

KeyCall(o, message) ==
    /\ o.name = "handleWMINPUT"
    /\ o.resolved
    /\ o.rawInput.dwType = RIM_TYPEKEYBOARD
    /\ FromDevice(o.rawInput)
    /\ o.rawInput.Message = message

\* The key is on the special-key list or has a character value.
IsRecordedKey(vkey) == SpecialKeyOf(vkey) # "" \/ MapVirtualKeyW(vkey) # 0

\* C23 as stated: the key-up of any key of a real keyboard logs exactly one
\* key-time record, a key-down logs none.
C23_KeyTimePerKeyUp ==
    [][ /\ KeyCall(op', WM_KEYUP) => Len(NamedIn(emitted', "key-time")) = 1
        /\ KeyCall(op', WM_KEYDOWN) => NamedIn(emitted', "key-time") = <<>> ]_vars

\* C23, amended: the key-up of a key of a real keyboard that is on the
\* special-key list or has a character value logs exactly one key-time
\* record, whatever the typing session; the key-up of any other key (CAPS
\* LOCK) logs none and leaves the typing session as it was, and so does a
\* key-down.
C23_KeyTimePerRecordedKeyUp ==
    [][ /\ (KeyCall(op', WM_KEYUP) /\ IsRecordedKey(op'.rawInput.VKey))
           => Len(NamedIn(emitted', "key-time")) = 1
        /\ (KeyCall(op', WM_KEYUP) /\ ~IsRecordedKey(op'.rawInput.VKey))
           => NamedIn(emitted', "key-time") = <<>> /\ UNCHANGED keyVars
        /\ KeyCall(op', WM_KEYDOWN)
           => NamedIn(emitted', "key-time") = <<>> /\ UNCHANGED keyVars ]_vars

\* CAPS LOCK was released while a typing session was open.
C23_Witness ==
    /\ KeyCall(op, WM_KEYUP)
    /\ op.rawInput.VKey = 20
    /\ keyCount > 0
    /\ Named("key-time") = <<>>

\* C24: windowCreated logs an app-launch record, and only one, exactly when
\* the pid of the window has no entry in runningApplications or the entry has
\* another exe; after the call the entry of the pid has the exe of the
\* window.  So a second window of the same pid and exe logs no app-launch
\* while the entry is there.
C24_LaunchIffNewApplication ==
    [][ op'.name = "windowCreated"
        => LET windowInfo == knownWindows'[op'.hwnd]
               pid == windowInfo.pid
               launches == NamedIn(emitted', "app-launch")
           IN /\ Len(launches) <= 1
              /\ Len(launches) = 1
                 <=> \/ pid \notin DOMAIN runningApplications
                     \/ runningApplications[pid].exe # windowInfo.exe
              /\ Len(launches) = 1
                 => /\ launches[1].data.pid = pid
                    /\ launches[1].data.windowClass = windowInfo.className
              /\ pid \in DOMAIN runningApplications'
              /\ runningApplications'[pid].exe = windowInfo.exe ]_vars

\* A window of another program has come with the pid that Notepad had, while
\* a window of Notepad is still known.
C24_Witness ==
    /\ op.name = "windowCreated"
    /\ Len(Named("app-launch")) = 1
    /\ Named("app-launch")[1].data.pid = 100
    /\ runningApplications[100].exe = Reused.path
    /\ \E hwnd \in DOMAIN knownWindows : knownWindows[hwnd].exe = Notepad.path

\* C25: stopInputMetrics sends the last timings to the log: when the typing
\* session that is open has at least 10 keys and lasted more than 30000 ms,
\* the call logs its typing-session record.
C25_StopLogsOpenSession ==
    [][ ( /\ op'.name = "stopInputMetrics"
          /\ keyCount >= MinSessionKeys
          /\ lastKeyTime - sessionStart > MinSession )
        => /\ Len(NamedIn(emitted', "typing-session")) = 1
           /\ NamedIn(emitted', "typing-session")[1].data.count = keyCount
           /\ NamedIn(emitted', "typing-session")[1].data.duration
                 = lastKeyTime - sessionStart ]_vars

\* C26: the active and the inactive signals alternate.  state.inactive is
\* set by what fires onInactive and by nothing else, and cleared where
\* onActive is fired and nowhere else, so it tells which signal was the last:
\* onInactive is fired only while it is false, onActive only while it is
\* true, and no handler fires two signals.
C26_SignalsAlternate ==
    [][ /\ NamedIn(emitted', "onInactive") # <<>> => ~inactive
        /\ NamedIn(emitted', "onActive") # <<>> => inactive
        /\ Len(NamedIn(emitted', "onInactive"))
              + Len(NamedIn(emitted', "onActive")) <= 1 ]_vars

\* C26, amended: two active signals do not occur without an inactive signal
\* between them: onActive is fired only while state.inactive is true, once,
\* and clears it, state.inactive is cleared by nothing else, and it is set
\* only where onInactive is fired.  Inactive signals are not held back by
\* state.inactive: the suspension and the timer fire onInactive whatever it is.
C26_ActiveSignalsAlternate ==
    [][ /\ NamedIn(emitted', "onActive") # <<>>
           => inactive /\ ~inactive' /\ Len(NamedIn(emitted', "onActive")) = 1
        /\ (inactive /\ ~inactive') => NamedIn(emitted', "onActive") # <<>>
        /\ (~inactive /\ inactive') => NamedIn(emitted', "onInactive") # <<>>
        /\ op'.name \in {"userInactive", "powerSuspend"}
           => Len(NamedIn(emitted', "onInactive")) = 1 /\ inactive' ]_vars

\* The system suspends after the timer has made the engine inactive: the
\* timer that state.inactivityTimer holds has fired, no input has set
\* another, and onInactive is fired again.
C26_Witness ==
    /\ op.name = "powerSuspend"
    /\ inactivityTimer # 0
    /\ timers = {}
    /\ inactive
    /\ Len(Named("onInactive")) = 1

\* C27: app-active and app-inactive records come in pairs.  While
\* state.activeWindow is a window handle, the last app-active record, for
\* that window and the pid in currentProcess, has had no app-inactive record
\* yet; so a call that logs the next app-active record logs the app-inactive
\* record of that window before it, also when the window has been destroyed.
C27_ActivationsPaired ==
    [][ ( /\ activeWindow \notin {0, Undefined}
          /\ NamedIn(emitted', "app-active") # <<>> )
        => LET acts == SelectSeq(emitted', IsActivation)
           IN /\ Len(acts) = 2
              /\ acts[1].name = "app-inactive"
              /\ acts[1].data.window
                    = WindowId([pid |-> currentProcess[1].pid, hwnd |-> activeWindow])
              /\ acts[2].name = "app-active" ]_vars

\* C28: no typing-session record spans a pause of more than 60000 ms.  The
\* session of a record has count + corrections key-ups, so one less gaps,
\* each of 60000 ms at most: its duration is at most 60000 ms times that.
C28_NoPauseInSession ==
    [][ \A i \in DOMAIN emitted' :
            emitted'[i].name = "typing-session"
            => LET data == emitted'[i].data
               IN data.duration
                     <= SessionTimeout * (data.count + data.corrections - 1) ]_vars

\* C29: no two pending polls are for the same pid, also when the pid has
\* gone to another executable while a poll is pending; and the poll that
\* finds the process gone removes no running-application entry but that of
\* the application whose window was destroyed: the entry of its pid, if that
\* has its exe.
C29_OnePollPerPid ==
    [][ /\ \A i, j \in DOMAIN polls' :
              polls'[i].windowInfo.pid = polls'[j].windowInfo.pid => i = j
        /\ op'.name = "processTerminated"
           => \A pid \in DOMAIN runningApplications \ DOMAIN runningApplications' :
                 /\ pid = op'.poll.windowInfo.pid
                 /\ runningApplications[pid].exe = op'.poll.windowInfo.exe ]_vars

\* C30: a process that ends less than 20000 ms after a known window of its
\* running application was destroyed gets its app-close record and loses its
\* entry.  While the entry is there and no window of the process is known, a
\* poll must be pending for it: no other code logs app-close or removes the
\* entry.
C30_TerminationLogged ==
    \A pid \in DOMAIN ended \cap DOMAIN destroyedAt :
        ( /\ ended[pid] >= destroyedAt[pid]
          /\ ended[pid] - destroyedAt[pid] < PollTimeoutMs
          /\ pid \in DOMAIN runningApplications
          /\ \A hwnd \in DOMAIN knownWindows : knownWindows[hwnd].pid # pid )
        => \E i \in DOMAIN polls : polls[i].windowInfo.pid = pid

\* C31: while the "app" state of the event log is "active", the active
\* handle is that of a known window of the engine's own process; the state is
\* cleared when that window is destroyed or stops to be the active one.
C31_AppStateOfOwnWindow ==
    appState = "active"
    => /\ activeWindow \in DOMAIN knownWindows
       /\ knownWindows[activeWindow].pid = OwnPid

\* C32: a key-up that comes 0 to 60000 ms after the last one, while a typing
\* session is open, is counted into the session, a key-up with the timestamp
\* of the last one too: no typing-session record is logged, the start of the
\* session stays, and the key is one more key or one more correction.
C32_KeyWithinTimeoutCounted ==
    [][ ( /\ keyCount > 0
          /\ NamedIn(emitted', "key-time") # <<>>
          /\ lastKeyTime' - lastKeyTime \in 0..SessionTimeout )
        => /\ NamedIn(emitted', "typing-session") = <<>>
           /\ sessionStart' = sessionStart
           /\ IF SpecialKeyOf(op'.rawInput.VKey) = ""
              THEN keyCount' = keyCount + 1 /\ specialCount' = specialCount
              ELSE keyCount' = keyCount /\ specialCount' = specialCount + 1 ]_vars

====
